---- MODULE Spec2Model ----
(***************************************************************************)
(* Model of the central limit order book of src/src/main.rs: the OrderBook *)
(* (bids, asks: price -> FIFO queue of orders) with submit_order,          *)
(* cancel_order and get_order_book, called through the HTTP handlers,      *)
(* which assign a fresh id to every submitted order.                       *)
(***************************************************************************)
EXTENDS Integers, Sequences, FiniteSets, TLC

\* ---------------------------------------------------------------- bounds
MaxPrice == 2
MaxQty == 2
MaxOrders == 3

Prices == 1..MaxPrice
Quantities == 0..MaxQty
Ids == 1..MaxOrders

\* the worker threads that run the handlers
NumWorkers == 2
Workers == 1..NumWorkers

VARIABLES bids, asks, nextId, last, \* the book, the id source, the last response
          mutex,                    \* AppState.order_book: 0 (free) or the holder
          pc,                       \* where each worker is in its handler
          loc                       \* the locals of each worker's handler

vars == <<bids, asks, nextId, last, mutex, pc, loc>>

\* the variables of the serving layer
conc == <<mutex, pc, loc>>

\* ---------------------------------------------------------------- helpers
SetMin(S) == CHOOSE x \in S : \A y \in S : x <= y
SetMax(S) == CHOOSE x \in S : \A y \in S : x >= y

RECURSIVE SumSeq(_)
SumSeq(s) == IF s = <<>> THEN 0 ELSE Head(s) + SumSeq(Tail(s))

\* struct Order
MkOrder(id, side, price, quantity) ==
    [id |-> id, side |-> side, price |-> price, quantity |-> quantity]

NoOrder == MkOrder(0, "None", 0, 0)

\* BTreeMap::new()
EmptyBook == [p \in {} |-> <<>>]

\* BTreeMap: replace the queue stored at key p
PutLevel(book, p, q) == [x \in DOMAIN book \cup {p} |-> IF x = p THEN q ELSE book[x]]

\* BTreeMap::remove(&p)
RemoveLevel(book, p) == [x \in DOMAIN book \ {p} |-> book[x]]

\* the orders of one queue / one side, as a set
QueueOrders(q) == {q[i] : i \in 1..Len(q)}
BookOrders(book) == UNION {QueueOrders(book[p]) : p \in DOMAIN book}
BookIds(book) == {o.id : o \in BookOrders(book)}

RECURSIVE QtySum(_)
QtySum(q) == IF q = <<>> THEN 0 ELSE Head(q).quantity + QtySum(Tail(q))

RECURSIVE BookQty(_)
BookQty(book) ==
    IF DOMAIN book = {} THEN 0
    ELSE LET p == SetMin(DOMAIN book) IN QtySum(book[p]) + BookQty(RemoveLevel(book, p))

\* ---------------------------------------------------------------- submit_order
\* variant of lowest_ask_price: the last key instead of the first
lowest_ask_price_Last(book) == SetMax(DOMAIN book)

\* self.asks.keys().next()
lowest_ask_price(book) == SetMin(DOMAIN book)

\* self.bids.keys().next_back()
highest_bid_price(book) == SetMax(DOMAIN book)

\* variant of BuyStops: the crossing test never stops the loop
BuyStops_Never(best, price) == FALSE

\* variant of BuyStops: an ask at the buy's own limit price does not cross
BuyStops_AtLimit(best, price) == best >= price

\* if lowest_ask_price > order.price { break }
BuyStops(best, price) == best > price

\* variant of SellStops: one price step too lenient
SellStops_Lenient(best, price) == best + 1 < price

\* if highest_bid_price < order.price { break }
SellStops(best, price) == best < price

BestPrice(side, book) ==
    IF side = "Buy" THEN lowest_ask_price(book) ELSE highest_bid_price(book)

Stops(side, best, price) ==
    IF side = "Buy" THEN BuyStops(best, price) ELSE SellStops(best, price)

\* variant of trade_qty: one unit per match step
trade_qty_Unit(incoming, resting) == IF incoming = 0 \/ resting = 0 THEN 0 ELSE 1

\* variant of trade_qty: the whole incoming quantity, without the min
trade_qty_NoMin(incoming, resting) == incoming

\* order.quantity.min(resting.quantity)
trade_qty(incoming, resting) == IF incoming <= resting THEN incoming ELSE resting

\* variant of pop_front: takes the newest order of the level
pop_front_Back(queue) ==
    [order |-> queue[Len(queue)], rest |-> SubSeq(queue, 1, Len(queue) - 1)]

\* queue.pop_front(): the order taken, and the queue left
pop_front(queue) == [order |-> Head(queue), rest |-> Tail(queue)]

\* variant of push_front: the order goes behind the others
push_front_Back(queue, order) == Append(queue, order)

\* queue.push_front(order)
push_front(queue, order) == <<order>> \o queue

\* variant of push_back: the order jumps the queue
push_back_Front(queue, order) == <<order>> \o queue

\* queue.push_back(order)
push_back(queue, order) == Append(queue, order)

\* variant of TradeRecord: the record carries the quantity exchanged
TradeRecord_Executed(resting, after) ==
    [resting EXCEPT !.quantity = resting.quantity - after.quantity]

\* trades.push(ask_order.clone()): the clone is taken after the decrement
TradeRecord(resting, after) == after

\* variant of RemoveIfEmpty: an emptied level stays in the map
RemoveIfEmpty_Never(book, p) == book

\* if queue.is_empty() { remove(&price) }
RemoveIfEmpty(book, p) == IF book[p] = <<>> THEN RemoveLevel(book, p) ELSE book

\* One iteration of the 'matching loop, after both break tests have passed.
\* st = [opp: the opposite side, order: the incoming order, trades, steps]
MatchStep(st, p) ==
    LET queue == st.opp[p] IN
    IF queue # <<>>
    THEN LET popped == pop_front(queue)
             resting == popped.order
             tq == trade_qty(st.order.quantity, resting.quantity)
             after == [resting EXCEPT !.quantity = @ - tq]
             q2 == IF after.quantity > 0
                   THEN push_front(popped.rest, after)
                   ELSE popped.rest
         IN [opp |-> RemoveIfEmpty(PutLevel(st.opp, p, q2), p),
             order |-> [st.order EXCEPT !.quantity = @ - tq],
             trades |-> Append(st.trades, TradeRecord(resting, after)),
             steps |-> Append(st.steps,
                          [price |-> p, resting |-> resting, trade_qty |-> tq,
                           incoming |-> st.order.quantity,
                           incoming_after |-> st.order.quantity - tq,
                           resting_after |-> after.quantity, head |-> TRUE])]
    ELSE [st EXCEPT !.opp = RemoveIfEmpty(st.opp, p),
                    !.steps = Append(@,
                          [price |-> p, resting |-> NoOrder, trade_qty |-> 0,
                           incoming |-> st.order.quantity,
                           incoming_after |-> st.order.quantity,
                           resting_after |-> 0, head |-> FALSE])]

\* while order.quantity > 0 { best price or break; crossing test or break; ... }
LoopContinues(side, st) ==
    /\ st.order.quantity > 0
    /\ DOMAIN st.opp # {}
    /\ ~Stops(side, BestPrice(side, st.opp), st.order.price)

RECURSIVE MatchLoop(_, _)
MatchLoop(side, st) ==
    IF LoopContinues(side, st)
    THEN MatchLoop(side, MatchStep(st, BestPrice(side, st.opp)))
    ELSE st

\* variant of RestRemainder: the order is inserted whatever quantity is left
RestRemainder_Always(own, order) ==
    PutLevel(own, order.price,
             push_back(IF order.price \in DOMAIN own THEN own[order.price] ELSE <<>>,
                       order))

\* Add remaining order to book
RestRemainder(own, order) ==
    IF order.quantity > 0
    THEN PutLevel(own, order.price,
                  push_back(IF order.price \in DOMAIN own THEN own[order.price] ELSE <<>>,
                            order))
    ELSE own

NoLast ==
    [op |-> "none", order |-> NoOrder, trades |-> <<>>, steps |-> <<>>,
     rem |-> 0, id |-> 0, found |-> FALSE, again |-> FALSE,
     bid_orders |-> <<>>, ask_orders |-> <<>>]

\* OrderBook::submit_order, called by the /submit handler with a fresh id
submit_order(side, price, quantity) ==
    /\ nextId <= MaxOrders
    /\ LET order == MkOrder(nextId, side, price, quantity)
           opp == IF side = "Buy" THEN asks ELSE bids
           own == IF side = "Buy" THEN bids ELSE asks
           fin == MatchLoop(side, [opp |-> opp, order |-> order,
                                   trades |-> <<>>, steps |-> <<>>])
           own2 == RestRemainder(own, fin.order)
       IN /\ bids' = IF side = "Buy" THEN own2 ELSE fin.opp
          /\ asks' = IF side = "Buy" THEN fin.opp ELSE own2
          /\ last' = [NoLast EXCEPT !.op = "submit", !.order = order,
                                    !.trades = fin.trades, !.steps = fin.steps,
                                    !.rem = fin.order.quantity]
    /\ nextId' = nextId + 1

\* ---------------------------------------------------------------- cancel_order
\* queue.iter().position(|o| o.id == order_id)
position(queue, order_id) ==
    IF \E i \in 1..Len(queue) : queue[i].id = order_id
    THEN SetMin({i \in 1..Len(queue) : queue[i].id = order_id})
    ELSE 0

\* variant of remove: the order is left in the queue
remove_Keep(queue, pos) == queue

\* variant of remove: drops the front order whatever the position
remove_Front(queue, pos) == Tail(queue)

\* queue.remove(pos)
remove(queue, pos) ==
    [i \in 1..(Len(queue) - 1) |-> IF i < pos THEN queue[i] ELSE queue[i + 1]]

\* for (_price, queue) in side.iter_mut(): the first level holding the id
CancelIn(book, order_id) ==
    LET hits == {p \in DOMAIN book : position(book[p], order_id) # 0} IN
    IF hits = {} THEN [found |-> FALSE, book |-> book]
    ELSE LET p == SetMin(hits) IN
         [found |-> TRUE,
          book |-> PutLevel(book, p, remove(book[p], position(book[p], order_id)))]

\* OrderBook::cancel_order, called by the /cancel handler
cancel_order(order_id) ==
    LET b == CancelIn(bids, order_id)
        a == IF b.found THEN [found |-> FALSE, book |-> asks] ELSE CancelIn(asks, order_id)
    IN /\ bids' = b.book
       /\ asks' = a.book
       /\ last' = [NoLast EXCEPT !.op = "cancel", !.id = order_id,
                                 !.found = b.found \/ a.found,
                                 \* the call repeats a cancel that just succeeded
                                 !.again = (last.op = "cancel" /\ last.found
                                            /\ last.id = order_id)]
       /\ UNCHANGED nextId

\* ---------------------------------------------------------------- get_order_book
RECURSIVE FlattenAsc(_)
FlattenAsc(book) ==
    IF DOMAIN book = {} THEN <<>>
    ELSE LET p == SetMin(DOMAIN book) IN book[p] \o FlattenAsc(RemoveLevel(book, p))

\* variant of FlattenDesc: the levels are walked without rev()
FlattenDesc_NoRev(book) == FlattenAsc(book)

RECURSIVE FlattenDesc(_)
FlattenDesc(book) ==
    IF DOMAIN book = {} THEN <<>>
    ELSE LET p == SetMax(DOMAIN book) IN book[p] \o FlattenDesc(RemoveLevel(book, p))

\* OrderBook::get_order_book, called by the /book handler
get_order_book ==
    /\ last' = [NoLast EXCEPT !.op = "book",
                              !.bid_orders = FlattenDesc(bids),
                              !.ask_orders = FlattenAsc(asks)]
    /\ UNCHANGED <<bids, asks, nextId>>

\* ---------------------------------------------------------------- specification
\* locals of a handler that is not running
NoLoc ==
    [kind |-> "none", order |-> NoOrder, quantity |-> 0, trades |-> <<>>, steps |-> <<>>,
     id |-> 0, found |-> FALSE, bid_orders |-> <<>>, ask_orders |-> <<>>,
     bids0 |-> EmptyBook, asks0 |-> EmptyBook]

Init ==
    /\ bids = EmptyBook
    /\ asks = EmptyBook
    /\ nextId = 1
    /\ last = NoLast
    /\ mutex = 0
    /\ pc = [w \in Workers |-> "wait"]
    /\ loc = [w \in Workers |-> NoLoc]

\* One request at a time: each handler runs from lock() to its response.
Submit == /\ \E side \in {"Buy", "Sell"}, price \in Prices, quantity \in Quantities :
                submit_order(side, price, quantity)
          /\ UNCHANGED conc

Cancel == /\ \E order_id \in Ids : cancel_order(order_id)
          /\ UNCHANGED conc

Snapshot == /\ get_order_book
            /\ UNCHANGED conc

Next == Submit \/ Cancel \/ Snapshot

Spec == Init /\ [][Next]_vars

\* ---------------------------------------------------------------- concurrent callers
\* The handlers run on several worker threads; each one takes the order-book
\* mutex first and holds the guard until it returns its response.

\* variant of MutexFree: lock() never waits
MutexFree_NoWait == TRUE

\* data.order_book.lock(): the lock can be taken
MutexFree == mutex = 0

\* Requests keep coming: a worker outside a handler has one at hand (pc
\* "wait") and is about to call lock(); which handler runs and what the
\* request holds shows when the lock is taken.

\* the orders the concurrent callers may submit in all
MaxConcOrders == MaxOrders - 1

\* /submit: lock(), req_body.into_inner(), order.id = Uuid::new_v4()
SubmitLock(w, side, price, quantity) ==
    /\ pc[w] = "wait"
    /\ nextId <= MaxConcOrders
    /\ MutexFree
    /\ mutex' = w
    /\ loc' = [loc EXCEPT ![w] = [NoLoc EXCEPT !.kind = "submit", !.quantity = quantity,
                                               !.order = MkOrder(nextId, side, price, quantity),
                                               !.bids0 = bids, !.asks0 = asks]]
    /\ nextId' = nextId + 1
    /\ pc' = [pc EXCEPT ![w] = "match"]
    /\ UNCHANGED <<bids, asks, last>>

\* one pass of the 'matching loop of submit_order, on the book in place; when
\* the loop ends, submit_order adds the remaining order and returns the trades
MatchIter(w) ==
    /\ pc[w] = "match"
    /\ LET side == loc[w].order.side
           st == [opp |-> IF side = "Buy" THEN asks ELSE bids, order |-> loc[w].order,
                  trades |-> loc[w].trades, steps |-> loc[w].steps]
       IN IF LoopContinues(side, st)
          THEN LET st2 == MatchStep(st, BestPrice(side, st.opp)) IN
               /\ bids' = IF side = "Buy" THEN bids ELSE st2.opp
               /\ asks' = IF side = "Buy" THEN st2.opp ELSE asks
               /\ loc' = [loc EXCEPT ![w] = [@ EXCEPT !.order = st2.order,
                                                      !.trades = st2.trades,
                                                      !.steps = st2.steps]]
               /\ UNCHANGED pc
          ELSE /\ bids' = IF side = "Buy" THEN RestRemainder(bids, st.order) ELSE bids
               /\ asks' = IF side = "Buy" THEN asks ELSE RestRemainder(asks, st.order)
               /\ pc' = [pc EXCEPT ![w] = "respond"]
               /\ UNCHANGED loc
    /\ UNCHANGED <<nextId, last, mutex>>

\* the handler returns its response (for /submit the trades, for /cancel
\* found, for /book the two sequences, all in loc[w]) and the guard is dropped
Respond(w) ==
    /\ pc[w] = "respond"
    /\ mutex' = 0
    /\ pc' = [pc EXCEPT ![w] = "wait"]
    /\ loc' = [loc EXCEPT ![w] = NoLoc]
    /\ UNCHANGED <<bids, asks, nextId, last>>

\* /cancel: lock(), req_body.into_inner()
CancelLock(w, order_id) ==
    /\ pc[w] = "wait"
    /\ MutexFree
    /\ mutex' = w
    /\ loc' = [loc EXCEPT ![w] = [NoLoc EXCEPT !.kind = "cancel", !.id = order_id,
                                               !.bids0 = bids, !.asks0 = asks]]
    /\ pc' = [pc EXCEPT ![w] = "cancel_bids"]
    /\ UNCHANGED <<bids, asks, nextId, last>>

\* cancel_order: the scan of the bid levels
CancelBids(w) ==
    /\ pc[w] = "cancel_bids"
    /\ LET b == CancelIn(bids, loc[w].id) IN
       /\ bids' = b.book
       /\ loc' = [loc EXCEPT ![w] = [@ EXCEPT !.found = b.found]]
       /\ pc' = [pc EXCEPT ![w] = IF b.found THEN "respond" ELSE "cancel_asks"]
    /\ UNCHANGED <<asks, nextId, last, mutex>>

\* cancel_order: if !found, the scan of the ask levels
CancelAsks(w) ==
    /\ pc[w] = "cancel_asks"
    /\ LET a == CancelIn(asks, loc[w].id) IN
       /\ asks' = a.book
       /\ loc' = [loc EXCEPT ![w] = [@ EXCEPT !.found = a.found]]
       /\ pc' = [pc EXCEPT ![w] = "respond"]
    /\ UNCHANGED <<bids, nextId, last, mutex>>

\* /book: lock()
BookLock(w) ==
    /\ pc[w] = "wait"
    /\ MutexFree
    /\ mutex' = w
    /\ loc' = [loc EXCEPT ![w] = [NoLoc EXCEPT !.kind = "book", !.bids0 = bids, !.asks0 = asks]]
    /\ pc' = [pc EXCEPT ![w] = "book_bids"]
    /\ UNCHANGED <<bids, asks, nextId, last>>

\* get_order_book: the bid levels
BookBids(w) ==
    /\ pc[w] = "book_bids"
    /\ loc' = [loc EXCEPT ![w] = [@ EXCEPT !.bid_orders = FlattenDesc(bids)]]
    /\ pc' = [pc EXCEPT ![w] = "book_asks"]
    /\ UNCHANGED <<bids, asks, nextId, last, mutex>>

\* get_order_book: the ask levels
BookAsks(w) ==
    /\ pc[w] = "book_asks"
    /\ loc' = [loc EXCEPT ![w] = [@ EXCEPT !.ask_orders = FlattenAsc(asks)]]
    /\ pc' = [pc EXCEPT ![w] = "respond"]
    /\ UNCHANGED <<bids, asks, nextId, last, mutex>>

\* the steps a worker takes once its request has arrived
Serve(w) ==
    \/ \E side \in {"Buy", "Sell"}, price \in Prices, quantity \in Quantities :
          SubmitLock(w, side, price, quantity)
    \/ MatchIter(w)
    \/ \E order_id \in Ids : CancelLock(w, order_id)
    \/ CancelBids(w)
    \/ CancelAsks(w)
    \/ BookLock(w)
    \/ BookBids(w)
    \/ BookAsks(w)
    \/ Respond(w)

NextC == \E w \in Workers : Serve(w)

SpecC == Init /\ [][NextC]_vars

\* the handlers run to completion, and a fair lock: a worker that finds the
\* mutex free again and again gets it
SpecCFair == SpecC /\ \A w \in Workers : SF_vars(Serve(w))

\* ---------------------------------------------------------------- properties
\* the transition is a submit_order call; its incoming order is last'.order
IsSubmit == nextId' = nextId + 1
\* the transition is a cancel_order call that changed the book or the result
IsCancel == last'.op = "cancel" /\ nextId' = nextId

OppOf(side, b, a) == IF side = "Buy" THEN a ELSE b
OwnOf(side, b, a) == IF side = "Buy" THEN b ELSE a

LiveLevels(book) == {p \in DOMAIN book : book[p] # <<>>}

TradeQuantities(trades) == [i \in 1..Len(trades) |-> trades[i].quantity]
TradeQtys(steps) == [i \in 1..Len(steps) |-> steps[i].trade_qty]

\* C1: no self-cross. Between operations, whenever both sides hold at least
\* one price level, the highest bid price is strictly below the lowest ask
\* price (for the level keys, and so also for the levels that hold orders).
C1_NoSelfCross ==
    /\ (DOMAIN bids # {} /\ DOMAIN asks # {})
          => SetMax(DOMAIN bids) < SetMin(DOMAIN asks)
    /\ (LiveLevels(bids) # {} /\ LiveLevels(asks) # {})
          => SetMax(LiveLevels(bids)) < SetMin(LiveLevels(asks))

\* a submit has just matched and both sides still hold orders
C1_Witness ==
    /\ last.op = "submit" /\ last.trades # <<>>
    /\ LiveLevels(bids) # {} /\ LiveLevels(asks) # {}

\* C2 (per match step): the popped resting order and the incoming order are
\* reduced by the same trade_qty = min(incoming, resting); nothing goes below 0;
\* the incoming quantity is threaded from step to step down to the remainder.
C2_Steps ==
    last.op = "submit" =>
        LET st == last.steps IN
        /\ \A k \in 1..Len(st) :
              /\ st[k].head =>
                    /\ st[k].trade_qty = (IF st[k].incoming <= st[k].resting.quantity
                                          THEN st[k].incoming ELSE st[k].resting.quantity)
                    /\ st[k].incoming_after = st[k].incoming - st[k].trade_qty
                    /\ st[k].resting_after = st[k].resting.quantity - st[k].trade_qty
                    /\ st[k].incoming_after >= 0
                    /\ st[k].resting_after >= 0
              /\ ~st[k].head => st[k].incoming_after = st[k].incoming
              /\ st[k].incoming = (IF k = 1 THEN last.order.quantity
                                   ELSE st[k - 1].incoming_after)
        /\ last.rem = (IF st = <<>> THEN last.order.quantity
                       ELSE st[Len(st)].incoming_after)

\* C2 (whole submit): the quantity that left the opposite side equals the
\* original incoming quantity minus the incoming quantity left after matching.
C2_BookStep ==
    IsSubmit =>
        LET side == last'.order.side IN
        BookQty(OppOf(side, bids, asks)) - BookQty(OppOf(side, bids', asks'))
            = last'.order.quantity - last'.rem

\* C2: book-level quantity conservation, per match step and per submit.
C2_BookConservation == [](C2_Steps) /\ [][C2_BookStep]_vars

\* a submit matched two resting orders, the second one only in part
C2_Witness ==
    /\ last.op = "submit" /\ Len(last.steps) >= 2
    /\ \E k \in 1..Len(last.steps) :
          last.steps[k].head /\ last.steps[k].resting_after > 0

\* C3: for any submit, the sum of the quantity fields of the returned trade
\* records plus the incoming order's remaining quantity equals the incoming
\* order's original quantity.
C3_TradeRecordConservation ==
    last.op = "submit" =>
        SumSeq(TradeQuantities(last.trades)) + last.rem = last.order.quantity

\* position of the order with the given id in a trade sequence, 0 if absent
TradeIndex(trades, id) ==
    IF \E i \in 1..Len(trades) : trades[i].id = id
    THEN SetMin({i \in 1..Len(trades) : trades[i].id = id})
    ELSE 0

\* the resting order with the given id, as it rests now
Resting(book, id) == CHOOSE o \in BookOrders(book) : o.id = id

\* C4 for one side book: A and B rest at the same price, A submitted first
\* (ids are issued in submission order). While A still rests after the step,
\* B keeps its quantity and is in no trade; if both trade, A trades first.
C4_Side(book, book2) ==
    \A A \in BookOrders(book), B \in BookOrders(book) :
        (A.price = B.price /\ A.id < B.id) =>
            /\ A.id \in BookIds(book2) =>
                  /\ B.id \in BookIds(book2) => B \in BookOrders(book2)
                  /\ IsSubmit => /\ B \in BookOrders(book2)
                                 /\ TradeIndex(last'.trades, B.id) = 0
            /\ (IsSubmit /\ TradeIndex(last'.trades, B.id) # 0) =>
                  /\ TradeIndex(last'.trades, A.id) # 0
                  /\ TradeIndex(last'.trades, A.id) < TradeIndex(last'.trades, B.id)

\* C4: time priority (FIFO within a price level), over submits and cancels.
C4_TimePriority == [][C4_Side(bids, bids') /\ C4_Side(asks, asks')]_vars

\* a submit consumed the older of two orders at one price and then reached
\* the younger one
C4_Witness ==
    /\ last.op = "submit"
    /\ \E i \in 1..Len(last.trades), j \in 1..Len(last.trades) :
          /\ i < j
          /\ last.trades[i].price = last.trades[j].price
          /\ last.trades[i].id < last.trades[j].id

\* C5 (after the partial fill): the resting order left with quantity > 0 is at
\* the front of its level, ahead of every order submitted after it.
C5_AtFront ==
    last.op = "submit" =>
        \A k \in 1..Len(last.steps) :
            LET s == last.steps[k]
                opp == OppOf(last.order.side, bids, asks) IN
            (s.head /\ s.resting_after > 0) =>
                /\ s.price \in DOMAIN opp
                /\ opp[s.price] # <<>>
                /\ Head(opp[s.price]).id = s.resting.id
                /\ Head(opp[s.price]).quantity = s.resting_after
                /\ \A i \in 2..Len(opp[s.price]) : opp[s.price][i].id > s.resting.id

\* C5 (later steps): the order at the front of a level stays at the front
\* until it leaves the book, and the first order a submit matches at a level
\* is the one that was at its front.
C5_Side(book, book2) ==
    \A p \in LiveLevels(book) :
        LET h == Head(book[p]) IN
        /\ h.id \in BookIds(book2) =>
              (p \in LiveLevels(book2) /\ Head(book2[p]).id = h.id)
        /\ IsSubmit =>
              \A k \in 1..Len(last'.steps) :
                  LET s == last'.steps[k] IN
                  (/\ s.head /\ s.price = p /\ s.resting.side = h.side
                   /\ \A j \in 1..(k - 1) : ~(last'.steps[j].head /\ last'.steps[j].price = p))
                      => s.resting = h

\* C5: a partially filled resting order keeps its place in its queue.
C5_PartialKeepsPlace ==
    [](C5_AtFront) /\ [][C5_Side(bids, bids') /\ C5_Side(asks, asks')]_vars

\* a submit filled a resting order in part, with a younger order queued
\* behind it at the same price
C5_Witness ==
    /\ last.op = "submit" /\ last.steps # <<>>
    /\ last.steps[1].head
    /\ last.steps[1].resting_after > 0
    /\ last.steps[1].price \in DOMAIN OppOf(last.order.side, bids, asks)
    /\ Len(OppOf(last.order.side, bids, asks)[last.steps[1].price]) >= 2
    /\ Len(OppOf(last.order.side, bids, asks)[last.steps[1].price]) >= 2

\* p is a strictly better price than q for an incoming order of this side
Better(side, p, q) == IF side = "Buy" THEN p < q ELSE p > q

\* price p lies outside the limit of the incoming order
Outside(order, p) == IF order.side = "Buy" THEN p > order.price ELSE p < order.price

IsHead(s) == s.head

\* C6: price priority and trade order. Within one submit, an order that rested
\* at a better price than a traded counterparty was consumed entirely and
\* earlier; trade prices run from the best price outward; the trade sequence
\* is the sequence of matched counterparties, in match order.
C6_Step ==
    IsSubmit =>
        LET side == last'.order.side
            opp == OppOf(side, bids, asks)
            opp2 == OppOf(side, bids', asks')
            tr == last'.trades
            matched == SelectSeq(last'.steps, IsHead)
        IN /\ \A i \in 1..Len(tr) : \A o \in BookOrders(opp) :
                 Better(side, o.price, tr[i].price) =>
                     /\ o.id \notin BookIds(opp2)
                     /\ TradeIndex(tr, o.id) \in 1..(i - 1)
           /\ \A i \in 1..Len(tr), j \in 1..Len(tr) :
                 i < j => ~Better(side, tr[j].price, tr[i].price)
           /\ Len(matched) = Len(tr)
           /\ \A i \in 1..Len(tr) :
                 /\ matched[i].resting \in BookOrders(opp)
                 /\ tr[i].id = matched[i].resting.id
                 /\ tr[i].price = matched[i].price

C6_PricePriority == [][C6_Step]_vars

\* one submit traded at two different price levels
C6_Witness ==
    /\ last.op = "submit" /\ Len(last.trades) >= 2
    /\ last.trades[1].price # last.trades[2].price

\* C7 (trade records): every returned record carries a resting price within
\* the incoming order's limit.
C7_Trades ==
    last.op = "submit" =>
        \A i \in 1..Len(last.trades) : ~Outside(last.order, last.trades[i].price)

\* C7 (book): the levels of the opposite side outside the limit are untouched.
C7_Step ==
    IsSubmit =>
        LET opp == OppOf(last'.order.side, bids, asks)
            opp2 == OppOf(last'.order.side, bids', asks')
        IN \A p \in DOMAIN opp :
               Outside(last'.order, p) => (p \in DOMAIN opp2 /\ opp2[p] = opp[p])

\* C7: limit prices are respected.
C7_LimitRespected == [](C7_Trades) /\ [][C7_Step]_vars

\* a submit traded while an order outside its limit rests on the opposite side
C7_Witness ==
    /\ last.op = "submit" /\ last.trades # <<>>
    /\ \E o \in BookOrders(OppOf(last.order.side, bids, asks)) :
          Outside(last.order, o.price)

\* number of orders resting on one side
BookLen(book) ==
    Cardinality(UNION {{<<p, i>> : i \in 1..Len(book[p])} : p \in DOMAIN book})

\* number of resting orders of one side that carry the id
Occurrences(book, id) ==
    Cardinality(UNION {{<<p, i>> : i \in {k \in 1..Len(book[p]) : book[p][k].id = id}}
                       : p \in DOMAIN book})

\* C8: the incoming order is inserted iff its remaining quantity is > 0, then
\* exactly once, on its own side, at the level of its limit price (created if
\* absent), at the back, with the unfilled remainder; the rest of its own side
\* is as before. A fully filled incoming order is nowhere in the book.
C8_Step ==
    IsSubmit =>
        LET order == last'.order
            own == OwnOf(order.side, bids, asks)
            own2 == OwnOf(order.side, bids', asks')
            opp2 == OppOf(order.side, bids', asks')
            rested == [order EXCEPT !.quantity = last'.rem]
        IN /\ Occurrences(opp2, order.id) = 0
           /\ IF last'.rem > 0
              THEN /\ Occurrences(own2, order.id) = 1
                   /\ DOMAIN own2 = DOMAIN own \cup {order.price}
                   /\ \A p \in DOMAIN own : p # order.price => own2[p] = own[p]
                   /\ own2[order.price] =
                         (IF order.price \in DOMAIN own THEN own[order.price] ELSE <<>>)
                            \o <<rested>>
              ELSE /\ Occurrences(own2, order.id) = 0
                   /\ own2 = own

C8_RemainderRests == [][C8_Step]_vars

\* the remainder of a partly matched incoming order rests
C8_Witness ==
    /\ last.op = "submit" /\ last.trades # <<>>
    /\ last.rem > 0 /\ last.rem < last.order.quantity
    /\ Occurrences(OwnOf(last.order.side, bids, asks), last.order.id) = 1

\* the opposite side holds no price level, or its best level does not cross
NonCrossing(order, opp) ==
    \/ DOMAIN opp = {}
    \/ order.side = "Buy" /\ SetMin(DOMAIN opp) > order.price
    \/ order.side = "Sell" /\ SetMax(DOMAIN opp) < order.price

\* the order rests at the back of its level with its full original quantity
RestsInFull(order, own2) ==
    /\ order.price \in DOMAIN own2
    /\ own2[order.price] # <<>>
    /\ own2[order.price][Len(own2[order.price])] = order

C9_OriginalStep ==
    (IsSubmit /\ NonCrossing(last'.order, OppOf(last'.order.side, bids, asks))) =>
        /\ last'.trades = <<>>
        /\ OppOf(last'.order.side, bids', asks') = OppOf(last'.order.side, bids, asks)
        /\ RestsInFull(last'.order, OwnOf(last'.order.side, bids', asks'))

C9_AmendedStep ==
    (IsSubmit /\ NonCrossing(last'.order, OppOf(last'.order.side, bids, asks))) =>
        /\ last'.trades = <<>>
        /\ OppOf(last'.order.side, bids', asks') = OppOf(last'.order.side, bids, asks)
        /\ IF last'.order.quantity > 0
           THEN RestsInFull(last'.order, OwnOf(last'.order.side, bids', asks'))
           ELSE /\ OwnOf(last'.order.side, bids', asks') = OwnOf(last'.order.side, bids, asks)
                /\ last'.rem = 0

Without(book, id, book2) ==
    /\ DOMAIN book2 = DOMAIN book
    /\ \A p \in DOMAIN book :
          book2[p] = SelectSeq(book[p], LAMBDA o : o.id # id)

\* C10: cancel_order of an id that does not rest returns false and leaves the
\* book unchanged; of one that rests it returns true and removes exactly that
\* order, every other order keeping its level, quantity and relative position.
C10_Step ==
    IsCancel =>
        IF last'.id \notin (BookIds(bids) \cup BookIds(asks))
        THEN /\ last'.found = FALSE
             /\ bids' = bids /\ asks' = asks
        ELSE /\ last'.found = TRUE
             /\ Without(bids, last'.id, bids')
             /\ Without(asks, last'.id, asks')
             /\ BookLen(bids') + BookLen(asks') = BookLen(bids) + BookLen(asks) - 1

C10_CancelFrame == [][C10_Step]_vars

\* a cancel removed an order and another order still rests at some level
C10_Witness ==
    /\ last.op = "cancel" /\ last.found
    /\ LiveLevels(bids) \cup LiveLevels(asks) # {}

\* the order with the given id is the only one resting at level p of the book
OnlyOrderAt(book, p, id) == Len(book[p]) = 1 /\ book[p][1].id = id

C11_Step ==
    IsCancel =>
        /\ \A p \in DOMAIN bids : OnlyOrderAt(bids, p, last'.id) => p \notin DOMAIN bids'
        /\ \A p \in DOMAIN asks : OnlyOrderAt(asks, p, last'.id) => p \notin DOMAIN asks'

\* C11: when cancel_order removes the only order resting at a price level, the
\* price key is gone from its side book when cancel_order returns.
C11_CancelRemovesLevel == [][C11_Step]_vars

\* C12: between operations, every price key of the bid map and of the ask map
\* maps to a queue holding at least one order.
C12_NoEmptyLevel ==
    /\ \A p \in DOMAIN bids : bids[p] # <<>>
    /\ \A p \in DOMAIN asks : asks[p] # <<>>

\* C13: every order in a bid or ask queue has quantity > 0; a resting order
\* that a match step took to 0 is not in the book, and an incoming order left
\* with quantity 0 (also one submitted with quantity 0) is not in the book.
C13_NoDeadOrder ==
    /\ \A o \in BookOrders(bids) \cup BookOrders(asks) : o.quantity > 0
    /\ last.op = "submit" =>
          /\ \A k \in 1..Len(last.steps) :
                (last.steps[k].head /\ last.steps[k].resting_after = 0) =>
                    last.steps[k].resting.id \notin (BookIds(bids) \cup BookIds(asks))
          /\ last.rem = 0 => last.order.id \notin (BookIds(bids) \cup BookIds(asks))

\* a submit took a resting order to 0 and was itself used up, others still rest
C13_Witness ==
    /\ last.op = "submit" /\ last.rem = 0 /\ last.steps # <<>>
    /\ last.steps[1].head /\ last.steps[1].resting_after = 0
    /\ BookOrders(bids) \cup BookOrders(asks) # {}

C14_Step ==
    IsCancel =>
        /\ last'.found = (last'.id \in (BookIds(bids) \cup BookIds(asks)))
        /\ last'.id >= nextId => last'.found = FALSE
        /\ (last.op = "cancel" /\ last.found /\ last.id = last'.id) =>
              /\ last'.found = FALSE
              /\ bids' = bids /\ asks' = asks

\* C14: idempotent cancel. Cancelling the id of a resting order returns true;
\* repeating that cancel at once returns false and leaves the book unchanged;
\* an id never submitted, or of an order no longer resting, returns false.
C14_IdempotentCancel == [][C14_Step]_vars

\* the cancel that has just returned false repeats one that returned true
C14_Witness == last.op = "cancel" /\ last.again /\ ~last.found

\* out lists exactly the orders of the book, each once, level by level in
\* queue order, and orders of one price in submission order
SnapshotOf(out, book) ==
    /\ Len(out) = BookLen(book)
    /\ QueueOrders(out) = BookOrders(book)
    /\ \A i \in 1..Len(out), j \in 1..Len(out) : i # j => out[i].id # out[j].id
    /\ \A p \in DOMAIN book : SelectSeq(out, LAMBDA o : o.price = p) = book[p]
    /\ \A i \in 1..Len(out), j \in 1..Len(out) :
          (i < j /\ out[i].price = out[j].price) => out[i].id < out[j].id

\* C15: get_order_book returns exactly the resting orders, each once; bids
\* non-increasing in price, asks non-decreasing, equal prices in arrival order.
C15_Snapshot ==
    last.op = "book" =>
        /\ SnapshotOf(last.bid_orders, bids)
        /\ SnapshotOf(last.ask_orders, asks)
        /\ \A i \in 1..Len(last.bid_orders), j \in 1..Len(last.bid_orders) :
              i < j => last.bid_orders[i].price >= last.bid_orders[j].price
        /\ \A i \in 1..Len(last.ask_orders), j \in 1..Len(last.ask_orders) :
              i < j => last.ask_orders[i].price <= last.ask_orders[j].price

\* a snapshot of bids at two prices, two of them at the same price
C15_Witness ==
    /\ last.op = "book" /\ Len(last.bid_orders) >= 3
    /\ last.bid_orders[1].price > last.bid_orders[3].price

\* C18: each returned trade record is the resting counterparty (id, side,
\* price) with its quantity AFTER the match step, 0 when it was fully filled,
\* and not the quantity exchanged in that step.
C18_TradeRecordContent ==
    last.op = "submit" =>
        LET matched == SelectSeq(last.steps, IsHead)
            opp == OppOf(last.order.side, bids, asks)
        IN /\ Len(last.trades) = Len(matched)
           /\ \A i \in 1..Len(last.trades) :
                 LET t == last.trades[i]
                     m == matched[i] IN
                 /\ t.id = m.resting.id
                 /\ t.side = m.resting.side
                 /\ t.price = m.resting.price
                 /\ t.quantity = m.resting.quantity - m.trade_qty
                 /\ t.quantity = 0 <=> t.id \notin BookIds(opp)
                 /\ t.quantity > 0 => t \in BookOrders(opp)

\* a record whose quantity differs from the quantity exchanged in its step
C18_Witness ==
    /\ last.op = "submit" /\ last.trades # <<>> /\ last.steps[1].head
    /\ last.trades[1].quantity # last.steps[1].trade_qty

\* C19: when the match loop meets a price level whose queue is empty (or a
\* resting order of quantity 0) the operation stops there: that step is the
\* last one, the level is not repaired away and the incoming order does not
\* go on to rest.
C19_FatalOnViolation ==
    last.op = "submit" =>
        \A k \in 1..Len(last.steps) :
            (~last.steps[k].head \/ last.steps[k].resting.quantity = 0) =>
                /\ k = Len(last.steps)
                /\ last.steps[k].price \in DOMAIN OppOf(last.order.side, bids, asks)
                /\ last.order.id \notin BookIds(OwnOf(last.order.side, bids, asks))

\* C20: in one submit every counterparty but the last is fully filled and
\* gone from the book; if the last one keeps quantity > 0 it rests and the
\* incoming order is fully filled and does not rest.
C20_OnePartialFill ==
    last.op = "submit" =>
        LET tr == last.trades
            opp == OppOf(last.order.side, bids, asks)
            own == OwnOf(last.order.side, bids, asks)
        IN /\ \A i \in 1..(Len(tr) - 1) :
                 tr[i].quantity = 0 /\ tr[i].id \notin BookIds(opp)
           /\ (tr # <<>> /\ tr[Len(tr)].quantity > 0) =>
                 /\ tr[Len(tr)] \in BookOrders(opp)
                 /\ last.rem = 0
                 /\ last.order.id \notin BookIds(own)
           /\ last.rem > 0 =>
                 \A o \in BookOrders(opp) : Outside(last.order, o.price)

\* a submit filled one counterparty entirely and the next one in part
C20_Witness ==
    /\ last.op = "submit" /\ Len(last.trades) >= 2
    /\ last.trades[Len(last.trades)].quantity > 0
    /\ last.rem = 0

\* the worker is between lock() and the drop of its guard
InHandler(w) == pc[w] # "wait"

\* C16 (mutual exclusion): a worker is inside its book operation exactly when
\* it holds the mutex, so at most one worker is, and no snapshot runs while a
\* submit or cancel is under way.
C16_Mutex ==
    /\ \A w \in Workers : InHandler(w) <=> mutex = w
    /\ \A w \in Workers, v \in Workers :
          (w # v /\ loc[w].kind = "book" /\ InHandler(w)) => ~InHandler(v)

\* C16 (sequential result): when a handler responds, the book and its result
\* are those of the whole operation applied to the book as it was at lock().
C16_Serial ==
    \A w \in Workers :
        pc[w] = "respond" =>
            LET l == loc[w] IN
            /\ l.kind = "submit" =>
                  LET side == l.order.side
                      fin == MatchLoop(side,
                                 [opp |-> OppOf(side, l.bids0, l.asks0),
                                  order |-> [l.order EXCEPT !.quantity = l.quantity],
                                  trades |-> <<>>, steps |-> <<>>])
                  IN /\ OppOf(side, bids, asks) = fin.opp
                     /\ OwnOf(side, bids, asks)
                           = RestRemainder(OwnOf(side, l.bids0, l.asks0), fin.order)
                     /\ l.trades = fin.trades
            /\ l.kind = "cancel" =>
                  LET b == CancelIn(l.bids0, l.id)
                      a == CancelIn(l.asks0, l.id)
                  IN /\ bids = b.book
                     /\ asks = (IF b.found THEN l.asks0 ELSE a.book)
                     /\ l.found = (b.found \/ a.found)
            /\ l.kind = "book" =>
                  /\ bids = l.bids0 /\ asks = l.asks0
                  /\ l.bid_orders = FlattenDesc(l.bids0)
                  /\ l.ask_orders = FlattenAsc(l.asks0)

\* C16 (no change outside an operation): the book a handler finds at lock()
\* is the book the previous operation left.
C16_Quiet == mutex = 0 => (bids' = bids /\ asks' = asks)

\* C16: operations are serialized under concurrent callers.
C16_Serialized == [](C16_Mutex) /\ [](C16_Serial) /\ [][C16_Quiet]_vars

\* one worker is in the middle of a match loop while the other waits in lock()
C16_Witness ==
    \E w \in Workers, v \in Workers :
        /\ pc[w] = "match" /\ loc[w].steps # <<>>
        /\ pc[v] = "wait"

\* what the match loop of worker w can still consume
Measure(b, a, l) ==
    LET opp == OppOf(l.order.side, b, a) IN
    BookQty(opp) + Cardinality(DOMAIN opp) + l.order.quantity

\* C17 (bound): the iterations of a match loop number at most the resting
\* orders plus the price levels the opposite side had when the loop began.
C17_Bound ==
    \A w \in Workers :
        loc[w].kind = "submit" =>
            LET opp0 == OppOf(loc[w].order.side, loc[w].bids0, loc[w].asks0) IN
            Len(loc[w].steps) <= BookLen(opp0) + Cardinality(DOMAIN opp0)

\* C17 (progress): every iteration consumes quantity or removes a level.
C17_Progress ==
    \A w \in Workers :
        (pc[w] = "match" /\ pc'[w] = "match" /\ loc'[w] # loc[w]) =>
            Measure(bids', asks', loc'[w]) < Measure(bids, asks, loc[w])

====
